---- MODULE Spec2Model ----
(***************************************************************************)
(* Model of build-scripts/crypt_compat.py: the compatibility shim that     *)
(* re-exposes crypt.crypt().  At import time the module selects, from the  *)
(* interpreter version, either its own adapter crypt(word, salt), which    *)
(* parses the salt descriptor and calls passlib's sha512_crypt, or the     *)
(* standard library's crypt.                                               *)
(*                                                                         *)
(* Strings are sequences of one-character strings, byte strings and texts  *)
(* of passwords are sequences of integers (byte values, code points).      *)
(* Each caller's call is followed statement by statement through pc.       *)
(***************************************************************************)
EXTENDS Integers, Sequences, FiniteSets, TLC

\* ------------------------------------------------------------------ bounds

\* longest text generated after "rounds=" in a descriptor's third segment
MaxRoundText == 2
\* most "$"-segments generated after the third segment
MaxTail == 1

\* ------------------------------------------------------- program constants

\* rounds = 5000  (lines 64 and 67)
DefaultRounds == 5000

\* the literal '$6$' of salt.startswith('$6$')
SHA512_PREFIX == <<"$", "6", "$">>
\* the literal 'rounds=' of parts[2].startswith('rounds=')
ROUNDS_PREFIX == <<"r", "o", "u", "n", "d", "s", "=">>
\* the (3, 13) of sys.version_info >= (3, 13)
MIN_ADAPTER_VERSION == <<3, 13>>

\* ----------------------------------------------------- string operations

\* str.startswith
StartsWith(s, p) == Len(s) >= Len(p) /\ SubSeq(s, 1, Len(p)) = p

\* s[:n]
Prefix(s, n) == SubSeq(s, 1, IF Len(s) < n THEN Len(s) ELSE n)

\* str.split(sep) for a one-character separator: one more segment than
\* there are separators, empty segments kept
RECURSIVE Split(_, _)
Split(s, sep) ==
    IF s = <<>> THEN << <<>> >>
    ELSE LET rest == Split(Tail(s), sep) IN
         IF Head(s) = sep THEN << <<>> >> \o rest
         ELSE << <<Head(s)>> \o rest[1] >> \o Tail(rest)

Digits == {"0", "1", "2", "3", "4", "5", "6", "7", "8", "9"}
Whitespace == {" ", "\t", "\n"}

DigitVal(ch) ==
    CASE ch = "0" -> 0 [] ch = "1" -> 1 [] ch = "2" -> 2 [] ch = "3" -> 3
      [] ch = "4" -> 4 [] ch = "5" -> 5 [] ch = "6" -> 6 [] ch = "7" -> 7
      [] ch = "8" -> 8 [] ch = "9" -> 9

RECURSIVE LStrip(_)
LStrip(s) == IF s # <<>> /\ Head(s) \in Whitespace THEN LStrip(Tail(s)) ELSE s

RECURSIVE RStrip(_)
RStrip(s) ==
    IF s # <<>> /\ s[Len(s)] \in Whitespace
    THEN RStrip(SubSeq(s, 1, Len(s) - 1)) ELSE s

\* a decimal literal as int() accepts it: digits, single underscores
\* only between digits
DigitsOK(d) ==
    /\ d # <<>>
    /\ d[1] \in Digits
    /\ d[Len(d)] \in Digits
    /\ \A i \in 1..Len(d) : d[i] \in Digits \cup {"_"}
    /\ \A i \in 1..(Len(d) - 1) : ~(d[i] = "_" /\ d[i + 1] = "_")

RECURSIVE DigitsValue(_, _)
DigitsValue(d, acc) ==
    IF d = <<>> THEN acc
    ELSE IF Head(d) = "_" THEN DigitsValue(Tail(d), acc)
    ELSE DigitsValue(Tail(d), 10 * acc + DigitVal(Head(d)))

\* int(s): surrounding whitespace stripped, an optional sign, then a
\* decimal literal; anything else raises ValueError (ok = FALSE)
ParseInt(s) ==
    LET t == RStrip(LStrip(s))
        signed == t # <<>> /\ Head(t) \in {"+", "-"}
        d == IF signed THEN Tail(t) ELSE t
    IN IF DigitsOK(d)
       THEN [ok |-> TRUE,
             val |-> IF signed /\ Head(t) = "-"
                     THEN 0 - DigitsValue(d, 0) ELSE DigitsValue(d, 0)]
       ELSE [ok |-> FALSE, val |-> 0]

\* ------------------------------------------------------- bytes.decode

IsCont(b) == b >= 128 /\ b <= 191

\* bytes.decode('utf-8'), strict: ok = FALSE stands for UnicodeDecodeError
RECURSIVE Utf8Decode(_)
Utf8Decode(b) ==
    IF b = <<>> THEN [ok |-> TRUE, text |-> <<>>]
    ELSE LET b1 == b[1]
             n == IF b1 < 128 THEN 1
                  ELSE IF b1 >= 194 /\ b1 <= 223 THEN 2
                  ELSE IF b1 >= 224 /\ b1 <= 239 THEN 3
                  ELSE IF b1 >= 240 /\ b1 <= 244 THEN 4
                  ELSE 0
             wellFormed ==
                 /\ n > 0
                 /\ Len(b) >= n
                 /\ \A i \in 2..n : IsCont(b[i])
                 /\ (b1 = 224 => b[2] >= 160)
                 /\ (b1 = 237 => b[2] <= 159)
                 /\ (b1 = 240 => b[2] >= 144)
                 /\ (b1 = 244 => b[2] <= 143)
             cp == IF n = 1 THEN b1
                   ELSE IF n = 2 THEN (b1 - 192) * 64 + (b[2] - 128)
                   ELSE IF n = 3
                        THEN (b1 - 224) * 4096 + (b[2] - 128) * 64 + (b[3] - 128)
                   ELSE (b1 - 240) * 262144 + (b[2] - 128) * 4096
                        + (b[3] - 128) * 64 + (b[4] - 128)
         IN IF ~wellFormed THEN [ok |-> FALSE, text |-> <<>>]
            ELSE LET rest == Utf8Decode(SubSeq(b, n + 1, Len(b))) IN
                 IF rest.ok THEN [ok |-> TRUE, text |-> <<cp>> \o rest.text]
                 ELSE rest

\* ------------------------------------------------------------- inputs

Callers == {1, 2}

Text(cps) == [kind |-> "text", val |-> cps]
Bytes(bs) == [kind |-> "bytes", val |-> bs]
NoWord == [kind |-> "none", val |-> <<>>]

\* passwords: 'a', 'é', b'a', b'\xc3\xa9', and the undecodable b'\xff',
\* b'\xc3' (truncated), b'a\x80' (stray continuation byte)
Words ==
    {Text(<<97>>), Text(<<233>>), Bytes(<<97>>), Bytes(<<195, 169>>),
     Bytes(<<255>>), Bytes(<<195>>), Bytes(<<97, 128>>)}

RoundChars == {"1", "0", "-", "+", "=", "x", " "}

SeqsUpTo(S, n) == UNION {[1..k -> S] : k \in 0..n}

\* what a descriptor starts with
Heads == {<<>>, <<"$", "6">>, <<"$", "5", "$">>, SHA512_PREFIX}

\* what follows the head, up to the next "$"
Thirds ==
    {<<>>, <<"a", "b">>, <<"r", "o", "u", "n", "d", "s">>}
    \cup {ROUNDS_PREFIX \o t : t \in SeqsUpTo(RoundChars, MaxRoundText)}

TailSegs == {<<>>, <<"c", "d">>}

RECURSIVE JoinTail(_)
JoinTail(segs) ==
    IF segs = <<>> THEN <<>> ELSE <<"$">> \o Head(segs) \o JoinTail(Tail(segs))

Tails == {JoinTail(t) : t \in SeqsUpTo(TailSegs, MaxTail)}

Descriptors == {h \o t \o r : h \in Heads, t \in Thirds, r \in Tails}

\* inputs of the two-caller specification
PairWords == {Text(<<97>>), Bytes(<<97>>), Bytes(<<195, 169>>), Text(<<233>>),
              Bytes(<<255>>)}
PairDescriptors ==
    {<<"$", "6", "$", "a", "b">>,
     <<"$", "5", "$", "a", "b">>,
     <<"$", "6">>,
     ROUNDS_PREFIX,
     SHA512_PREFIX \o ROUNDS_PREFIX \o <<"1", "0", "$", "c", "d">>,
     SHA512_PREFIX \o ROUNDS_PREFIX \o <<"x">>}

RuntimeVersions == {<<3, 12>>, <<3, 13>>, <<4, 0>>, <<2, 14>>}

\* -------------------------------------------------------------- state

VARIABLES
    version,      \* sys.version_info (major, minor)
    havePasslib,  \* whether "from passlib.hash import sha512_crypt" succeeds
    impl,         \* what the name crypt is bound to after import
    pc,           \* per caller: the statement of crypt() it is at
    word,         \* per caller: the argument word
    salt,         \* per caller: the argument salt
    text,         \* per caller: word after the conversion of lines 42-43
    parts,        \* per caller: the local parts
    rounds,       \* per caller: the local rounds
    salt_value,   \* per caller: the local salt_value
    invoked,      \* per caller: the primitive invocations of the current call
    result        \* per caller: what the call returned or raised

vars == <<version, havePasslib, impl, pc, word, salt, text, parts, rounds,
          salt_value, invoked, result>>

loadVars == <<version, havePasslib, impl>>

NoResult == [kind |-> "none", word |-> NoWord, salt |-> <<>>, rounds |-> 0]

\* as VersionGE, comparing the minor version alone
VersionGE_minorOnly(v, w) == v[2] >= w[2]

\* the tuple comparison sys.version_info >= (3, 13)
VersionGE(v, w) == v[1] > w[1] \/ (v[1] = w[1] /\ v[2] >= w[2])

\* the module body: which crypt the import leaves bound
Select(v, lib) ==
    IF VersionGE(v, MIN_ADAPTER_VERSION)
    THEN (IF lib THEN "adapter" ELSE "unloaded")
    ELSE "native"

Init ==
    /\ version \in RuntimeVersions
    /\ havePasslib \in BOOLEAN
    /\ impl = Select(version, havePasslib)
    /\ pc = [c \in Callers |-> "idle"]
    /\ word = [c \in Callers |-> NoWord]
    /\ salt = [c \in Callers |-> <<>>]
    /\ text = [c \in Callers |-> <<>>]
    /\ parts = [c \in Callers |-> <<>>]
    /\ rounds = [c \in Callers |-> 0]
    /\ salt_value = [c \in Callers |-> <<>>]
    /\ invoked = [c \in Callers |-> <<>>]
    /\ result = [c \in Callers |-> NoResult]

\* ------------------------------------------------------------ outcomes

\* sha512_crypt.using(rounds=r, salt=s).hash(w): the external primitive,
\* kept as the triple it is applied to
Sha512Crypt(w, s, r) ==
    [kind |-> "hash", word |-> Text(w), salt |-> s, rounds |-> r]

\* the standard library's crypt(word, salt)
NativeCrypt(w, s) == [kind |-> "native", word |-> w, salt |-> s, rounds |-> 0]

EncodingError == [kind |-> "EncodingError", word |-> NoWord, salt |-> <<>>, rounds |-> 0]

\* ValueError("Only SHA-512 crypt ($6$) is supported, got: {salt[:3]}")
UnsupportedScheme(s) ==
    [kind |-> "UnsupportedScheme", word |-> NoWord, salt |-> Prefix(s, 3), rounds |-> 0]

\* ValueError("Invalid salt format: {salt}")
MalformedSalt(s) ==
    [kind |-> "MalformedSalt", word |-> NoWord, salt |-> s, rounds |-> 0]

Raise(c, e) ==
    /\ result' = [result EXCEPT ![c] = e]
    /\ pc' = [pc EXCEPT ![c] = "done"]

Goto(c, p) ==
    /\ pc' = [pc EXCEPT ![c] = p]
    /\ UNCHANGED result

\* ------------------------------------------------------------- actions

\* a caller calls crypt(w, s): fresh locals, entry into the bound function
Enter(c, w, s) ==
    /\ pc[c] = "idle"
    /\ impl \in {"adapter", "native"}
    /\ word' = [word EXCEPT ![c] = w]
    /\ salt' = [salt EXCEPT ![c] = s]
    /\ text' = [text EXCEPT ![c] = <<>>]
    /\ parts' = [parts EXCEPT ![c] = <<>>]
    /\ rounds' = [rounds EXCEPT ![c] = 0]
    /\ salt_value' = [salt_value EXCEPT ![c] = <<>>]
    /\ invoked' = [invoked EXCEPT ![c] = <<>>]
    /\ result' = [result EXCEPT ![c] = NoResult]
    /\ pc' = [pc EXCEPT ![c] = IF impl = "adapter" THEN "decode" ELSE "native"]
    /\ UNCHANGED loadVars

Call(c) == pc[c] = "idle" /\ \E w \in Words, s \in Descriptors : Enter(c, w, s)

CallPair(c) ==
    pc[c] = "idle" /\ \E w \in PairWords, s \in PairDescriptors : Enter(c, w, s)

\* as Decode, with the wrong codec: word.decode('latin-1') never fails
Decode_latin1(c) ==
    /\ pc[c] = "decode"
    /\ text' = [text EXCEPT ![c] = word[c].val]
    /\ Goto(c, "prefix")
    /\ UNCHANGED <<loadVars, word, salt, parts, rounds, salt_value, invoked>>

\* as Decode, with word.decode('utf-8', errors='replace'): an undecodable
\* password becomes U+FFFD and the call goes on
Decode_replace(c) ==
    /\ pc[c] = "decode"
    /\ IF word[c].kind = "bytes"
       THEN LET d == Utf8Decode(word[c].val) IN
            text' = [text EXCEPT ![c] = IF d.ok THEN d.text ELSE <<65533>>]
       ELSE text' = [text EXCEPT ![c] = word[c].val]
    /\ Goto(c, "prefix")
    /\ UNCHANGED <<loadVars, word, salt, parts, rounds, salt_value, invoked>>

\* lines 42-43
Decode(c) ==
    /\ pc[c] = "decode"
    /\ IF word[c].kind = "bytes"
       THEN LET d == Utf8Decode(word[c].val) IN
            IF d.ok
            THEN text' = [text EXCEPT ![c] = d.text] /\ Goto(c, "prefix")
            ELSE UNCHANGED text /\ Raise(c, EncodingError)
       ELSE text' = [text EXCEPT ![c] = word[c].val] /\ Goto(c, "prefix")
    /\ UNCHANGED <<loadVars, word, salt, parts, rounds, salt_value, invoked>>

\* as CheckPrefix, testing salt.startswith('$6') only
CheckPrefix_scheme6(c) ==
    /\ pc[c] = "prefix"
    /\ IF ~StartsWith(salt[c], <<"$", "6">>)
       THEN Raise(c, UnsupportedScheme(salt[c]))
       ELSE Goto(c, "split")
    /\ UNCHANGED <<loadVars, word, salt, text, parts, rounds, salt_value, invoked>>

\* lines 46-49
CheckPrefix(c) ==
    /\ pc[c] = "prefix"
    /\ IF ~StartsWith(salt[c], SHA512_PREFIX)
       THEN Raise(c, UnsupportedScheme(salt[c]))
       ELSE Goto(c, "split")
    /\ UNCHANGED <<loadVars, word, salt, text, parts, rounds, salt_value, invoked>>

\* lines 53-55
SplitSalt(c) ==
    /\ pc[c] = "split"
    /\ parts' = [parts EXCEPT ![c] = Split(salt[c], "$")]
    /\ IF Len(parts'[c]) < 3
       THEN Raise(c, MalformedSalt(salt[c]))
       ELSE Goto(c, "rounds")
    /\ UNCHANGED <<loadVars, word, salt, text, rounds, salt_value, invoked>>

\* parts[2].split('=')[1]  (line 60)
RoundsStr(p) == Split(p[3], "=")[2]

\* as ResolveRounds, with the rounds option ignored
ResolveRounds_default(p) == DefaultRounds

\* lines 58-68: the rounds the primitive is configured with
ResolveRounds(p) ==
    IF StartsWith(p[3], ROUNDS_PREFIX)
    THEN LET r == ParseInt(RoundsStr(p)) IN
         IF r.ok THEN r.val ELSE DefaultRounds
    ELSE DefaultRounds

\* as ResolveSalt, taking the last segment as the salt
ResolveSalt_last(p) ==
    IF StartsWith(p[3], ROUNDS_PREFIX)
    THEN (IF Len(p) > 3 THEN p[4] ELSE <<>>)
    ELSE p[Len(p)]

\* lines 58-68: the salt the primitive is configured with
ResolveSalt(p) ==
    IF StartsWith(p[3], ROUNDS_PREFIX)
    THEN (IF Len(p) > 3 THEN p[4] ELSE <<>>)
    ELSE p[3]

\* lines 58-68
ParseRounds(c) ==
    /\ pc[c] = "rounds"
    /\ rounds' = [rounds EXCEPT ![c] = ResolveRounds(parts[c])]
    /\ salt_value' = [salt_value EXCEPT ![c] = ResolveSalt(parts[c])]
    /\ Goto(c, "hash")
    /\ UNCHANGED <<loadVars, word, salt, text, parts, invoked>>

\* as Hash, with the salt left out of using(): passlib then draws one
Hash_randomSalt(c) ==
    /\ pc[c] = "hash"
    /\ \E s \in {<<"a", "b">>, <<"c", "d">>} :
        /\ invoked' = [invoked EXCEPT ![c] =
               Append(@, [prim |-> "passlib", word |-> Text(text[c]),
                          salt |-> s, rounds |-> rounds[c]])]
        /\ Raise(c, Sha512Crypt(text[c], s, rounds[c]))
    /\ UNCHANGED <<loadVars, word, salt, text, parts, rounds, salt_value>>

\* line 72
Hash(c) ==
    /\ pc[c] = "hash"
    /\ invoked' = [invoked EXCEPT ![c] =
           Append(@, [prim |-> "passlib", word |-> Text(text[c]),
                      salt |-> salt_value[c], rounds |-> rounds[c]])]
    /\ Raise(c, Sha512Crypt(text[c], salt_value[c], rounds[c]))
    /\ UNCHANGED <<loadVars, word, salt, text, parts, rounds, salt_value>>

\* lines 74-76: crypt is the standard library's function
Native(c) ==
    /\ pc[c] = "native"
    /\ invoked' = [invoked EXCEPT ![c] =
           Append(@, [prim |-> "native", word |-> word[c],
                      salt |-> salt[c], rounds |-> 0])]
    /\ Raise(c, NativeCrypt(word[c], salt[c]))
    /\ UNCHANGED <<loadVars, word, salt, text, parts, rounds, salt_value>>

\* the call is over: its frame is discarded and the caller may call again
Return(c) ==
    /\ pc[c] = "done"
    /\ pc' = [pc EXCEPT ![c] = "idle"]
    /\ word' = [word EXCEPT ![c] = NoWord]
    /\ salt' = [salt EXCEPT ![c] = <<>>]
    /\ text' = [text EXCEPT ![c] = <<>>]
    /\ parts' = [parts EXCEPT ![c] = <<>>]
    /\ rounds' = [rounds EXCEPT ![c] = 0]
    /\ salt_value' = [salt_value EXCEPT ![c] = <<>>]
    /\ invoked' = [invoked EXCEPT ![c] = <<>>]
    /\ result' = [result EXCEPT ![c] = NoResult]
    /\ UNCHANGED loadVars

Step(c) ==
    \/ Decode(c)
    \/ CheckPrefix(c)
    \/ SplitSalt(c)
    \/ ParseRounds(c)
    \/ Hash(c)
    \/ Native(c)
    \/ Return(c)

\* one caller, calls one after the other
Next == Call(1) \/ Step(1)

Spec == Init /\ [][Next]_vars

\* two callers, their calls interleaved statement by statement
NextPair == \E c \in Callers : CallPair(c) \/ Step(c)

SpecPair == Init /\ [][NextPair]_vars

\* ------------------------------------------------------------ vocabulary

\* the password is text, or bytes that are valid UTF-8
Decodable(w) == w.kind = "text" \/ Utf8Decode(w.val).ok

\* the text the password stands for
TextOf(w) == IF w.kind = "text" THEN w.val ELSE Utf8Decode(w.val).text

\* the "$"-delimited segments of a descriptor
Segments(s) == Split(s, "$")

\* the descriptor begins with $6$ and its third segment with rounds=
HasRoundsOption(s) ==
    StartsWith(s, SHA512_PREFIX) /\ StartsWith(Segments(s)[3], ROUNDS_PREFIX)

\* the text of the third segment after "rounds="
RoundText(s) ==
    SubSeq(Segments(s)[3], Len(ROUNDS_PREFIX) + 1, Len(Segments(s)[3]))

\* the fourth segment if present, else the empty string
FourthOrEmpty(s) == IF Len(Segments(s)) >= 4 THEN Segments(s)[4] ELSE <<>>

\* caller c is inside or at the end of a call of the adapter
InAdapter(c) == impl = "adapter" /\ pc[c] # "idle"

\* caller c's call of the adapter is over
AdapterDone(c) == impl = "adapter" /\ pc[c] = "done"

\* the call invoked passlib exactly once, with these arguments, and returned
\* what it gave
InvokedWith(c, w, s, r) ==
    /\ invoked[c] = <<[prim |-> "passlib", word |-> Text(w), salt |-> s, rounds |-> r]>>
    /\ result[c] = Sha512Crypt(w, s, r)

D_6 == <<"$", "6">>
D_5_ab == <<"$", "5", "$", "a", "b">>
D_6_ab_cd == <<"$", "6", "$", "a", "b", "$", "c", "d">>
D_6_rounds10_cd == SHA512_PREFIX \o ROUNDS_PREFIX \o <<"1", "0", "$", "c", "d">>

\* ---------------------------------------------------------------- claims

\* C1: for every (decodable) password and every descriptor with fewer than 3
\* "$"-delimited segments, the call fails with the "invalid salt format"
\* error (MalformedSalt) and with no other error kind.
C1_FewSegmentsMalformed ==
    \A c \in Callers :
        (AdapterDone(c) /\ Decodable(word[c]) /\ Len(Segments(salt[c])) < 3)
            => result[c].kind = "MalformedSalt"

\* C2 as stated: for every descriptor that does not begin with $6$ the call
\* fails with the unsupported-scheme error reporting the descriptor's first
\* three characters, and the primitive is never invoked.
C2_Original ==
    \A c \in Callers :
        (AdapterDone(c) /\ ~StartsWith(salt[c], SHA512_PREFIX))
            => /\ result[c].kind = "UnsupportedScheme"
               /\ result[c].salt = Prefix(salt[c], 3)
               /\ invoked[c] = <<>>

\* C2 amended: for every descriptor that does not begin with $6$ the
\* primitive is never invoked, and the call fails with the
\* unsupported-scheme error reporting the descriptor's first three
\* characters when the password is text or valid UTF-8 bytes, and with the
\* encoding error when the password is bytes that are not valid UTF-8.
C2_UnsupportedScheme ==
    \A c \in Callers :
        (InAdapter(c) /\ ~StartsWith(salt[c], SHA512_PREFIX))
            => /\ invoked[c] = <<>>
               /\ pc[c] \in {"decode", "prefix", "done"}
               /\ pc[c] = "done" =>
                    IF Decodable(word[c])
                    THEN /\ result[c].kind = "UnsupportedScheme"
                         /\ result[c].salt = Prefix(salt[c], 3)
                    ELSE result[c] = EncodingError

C2_Witness ==
    \E c \in Callers :
        /\ AdapterDone(c)
        /\ word[c] = Text(<<97>>)
        /\ salt[c] = D_5_ab
        /\ result[c].kind = "UnsupportedScheme"
        /\ result[c].salt = <<"$", "5", "$">>

\* C3: for every descriptor starting with $6$ whose third segment begins
\* with rounds= and whose round text (what follows "rounds=") is not
\* parseable as an integer, the call (of a decodable password) does not
\* fail in the adapter: it invokes the primitive with round count 5000 and
\* with the fourth segment, or the empty string, as salt.
C3_UnparseableRoundsDefault ==
    \A c \in Callers :
        (/\ AdapterDone(c)
         /\ Decodable(word[c])
         /\ HasRoundsOption(salt[c])
         /\ ~ParseInt(RoundText(salt[c])).ok)
            => InvokedWith(c, TextOf(word[c]), FourthOrEmpty(salt[c]), 5000)

\* C4: for every descriptor $6$rounds=<N>$<salt> with <N> a parseable
\* integer, every invocation of the primitive has round count exactly N and
\* as salt the fourth segment if present, else the empty string (never the
\* third segment), and a call whose password decodes makes exactly that one
\* invocation and returns its result.
C4_ExplicitRounds ==
    \A c \in Callers :
        (/\ InAdapter(c)
         /\ HasRoundsOption(salt[c])
         /\ ParseInt(RoundText(salt[c])).ok)
            => /\ \A i \in DOMAIN invoked[c] :
                    /\ invoked[c][i].rounds = ParseInt(RoundText(salt[c])).val
                    /\ invoked[c][i].salt = FourthOrEmpty(salt[c])
                    /\ invoked[c][i].salt # Segments(salt[c])[3]
               /\ (pc[c] = "done" /\ Decodable(word[c]))
                    => InvokedWith(c, TextOf(word[c]), FourthOrEmpty(salt[c]),
                                   ParseInt(RoundText(salt[c])).val)

C4_Witness ==
    \E c \in Callers :
        /\ AdapterDone(c)
        /\ salt[c] = D_6_rounds10_cd
        /\ result[c] = Sha512Crypt(<<97>>, <<"c", "d">>, 10)

\* C5: for every descriptor starting with $6$ whose third segment does not
\* begin with rounds=, every invocation of the primitive has round count
\* 5000 and as salt exactly the third segment, whatever segments follow it,
\* and a call whose password decodes returns the primitive's result for
\* that password, that salt and 5000 rounds.
C5_DefaultRounds ==
    \A c \in Callers :
        (/\ InAdapter(c)
         /\ StartsWith(salt[c], SHA512_PREFIX)
         /\ ~StartsWith(Segments(salt[c])[3], ROUNDS_PREFIX))
            => /\ \A i \in DOMAIN invoked[c] :
                    /\ invoked[c][i].rounds = 5000
                    /\ invoked[c][i].salt = Segments(salt[c])[3]
               /\ (pc[c] = "done" /\ Decodable(word[c]))
                    => InvokedWith(c, TextOf(word[c]), Segments(salt[c])[3], 5000)

C5_Witness ==
    \E c \in Callers :
        /\ AdapterDone(c)
        /\ salt[c] = D_6_ab_cd
        /\ result[c] = Sha512Crypt(<<97>>, <<"a", "b">>, 5000)

\* C6: the round count handed to the SHA-512 crypt primitive is a positive
\* integer: zero or negative round texts never reach it.
C6_RoundsPositive ==
    \A c \in Callers :
        impl = "adapter" =>
            \A i \in DOMAIN invoked[c] : invoked[c][i].rounds > 0

\* C7: for every descriptor, a byte password that is valid UTF-8 yields the
\* same outcome (same hash or same error) as the text password it decodes
\* to, and a byte password that is not valid UTF-8 fails with the encoding
\* error.
C7_BytesAsText ==
    \A c \in Callers :
        (AdapterDone(c) /\ word[c].kind = "bytes")
            => IF Utf8Decode(word[c].val).ok
               THEN \A d \in Callers :
                        (/\ AdapterDone(d)
                         /\ word[d] = Text(Utf8Decode(word[c].val).text)
                         /\ salt[d] = salt[c])
                            => result[d] = result[c]
               ELSE result[c] = EncodingError /\ invoked[c] = <<>>

C7_Witness ==
    \E c, d \in Callers :
        /\ AdapterDone(c) /\ AdapterDone(d)
        /\ word[c] = Bytes(<<195, 169>>)
        /\ word[d] = Text(<<233>>)
        /\ salt[c] = salt[d]
        /\ result[c].kind = "hash"
        /\ result[d] = result[c]

\* the variables of one caller's call
Frame(c) ==
    <<pc[c], word[c], salt[c], text[c], parts[c], rounds[c], salt_value[c],
      invoked[c], result[c]>>

\* two finished calls with the same password and descriptor agree
C8_SameInputsSameOutcome ==
    \A c, d \in Callers :
        (/\ AdapterDone(c) /\ AdapterDone(d)
         /\ word[c] = word[d]
         /\ salt[c] = salt[d])
            => result[c] = result[d]

\* a step of one call leaves the load-time state and the other calls alone
C8_NoSharedState ==
    \A c \in Callers :
        Frame(c)' # Frame(c)
            => /\ loadVars' = loadVars
               /\ \A d \in Callers \ {c} : Frame(d)' = Frame(d)

\* C8: the outcome of crypt is a pure function of (password, descriptor):
\* two calls with the same password and descriptor, however interleaved and
\* whatever calls came before, give the same result or error, and a step of
\* one call changes nothing another call reads.
C8_Pure == []C8_SameInputsSameOutcome /\ [][C8_NoSharedState]_vars

C8_Witness ==
    /\ AdapterDone(1) /\ AdapterDone(2)
    /\ word[1] = word[2]
    /\ salt[1] = salt[2]
    /\ result[1].kind = "hash"
    /\ result[2] = result[1]

\* the runtime is at or above 3.13
NewRuntime == version[1] > 3 \/ (version[1] = 3 /\ version[2] >= 13)

\* which implementation serves the calls, by runtime version
C9_Dispatch ==
    /\ NewRuntime => impl \in {"adapter", "unloaded"}
    /\ ~NewRuntime => impl = "native"
    /\ \A c \in Callers :
        /\ (NewRuntime /\ pc[c] # "idle")
            => /\ pc[c] # "native"
               /\ \A i \in DOMAIN invoked[c] : invoked[c][i].prim = "passlib"
               /\ pc[c] = "done" => result[c].kind # "native"
               /\ result[c].kind = "hash"
                    => /\ Decodable(word[c])
                       /\ StartsWith(salt[c], SHA512_PREFIX)
                       /\ Len(invoked[c]) = 1
        /\ (~NewRuntime /\ pc[c] # "idle")
            => /\ pc[c] \in {"native", "done"}
               /\ pc[c] = "done"
                    => /\ invoked[c] = <<[prim |-> "native", word |-> word[c],
                                          salt |-> salt[c], rounds |-> 0]>>
                       /\ result[c] = NativeCrypt(word[c], salt[c])

\* C9: the implementation is selected once, at load time, by the runtime
\* version and never changes: at or above 3.13 every call goes through the
\* adapter (decoding, validation and parsing, then passlib), below it every
\* call goes straight to the native primitive with the password and the
\* descriptor as given and none of the adapter's checks.
C9_SelectionFixed ==
    []C9_Dispatch /\ [][impl' = impl /\ version' = version]_vars

C9_Witness ==
    \E c \in Callers :
        /\ version = <<3, 12>>
        /\ pc[c] = "done"
        /\ word[c] = Bytes(<<255>>)
        /\ salt[c] = D_6
        /\ result[c] = NativeCrypt(word[c], salt[c])

\* the order of the statements of a call
Order ==
    {<<"idle", "decode">>, <<"decode", "prefix">>, <<"prefix", "split">>,
     <<"split", "rounds">>, <<"rounds", "hash">>, <<"hash", "done">>,
     <<"decode", "done">>, <<"prefix", "done">>, <<"split", "done">>,
     <<"done", "idle">>}

\* a statement is reached only past the checks before it, and the outcome
\* is that of the first failing check
C10_Stages ==
    \A c \in Callers :
        InAdapter(c) =>
            /\ pc[c] \in {"prefix", "split", "rounds", "hash"} => Decodable(word[c])
            /\ pc[c] \in {"split", "rounds", "hash"}
                    => StartsWith(salt[c], SHA512_PREFIX)
            /\ pc[c] \in {"rounds", "hash"} => Len(Segments(salt[c])) >= 3
            /\ pc[c] # "done" => invoked[c] = <<>> /\ result[c] = NoResult
            /\ pc[c] = "done" =>
                 IF ~Decodable(word[c])
                 THEN result[c] = EncodingError /\ invoked[c] = <<>>
                 ELSE IF ~StartsWith(salt[c], SHA512_PREFIX)
                 THEN result[c].kind = "UnsupportedScheme" /\ invoked[c] = <<>>
                 ELSE IF Len(Segments(salt[c])) < 3
                 THEN result[c].kind = "MalformedSalt" /\ invoked[c] = <<>>
                 ELSE result[c].kind = "hash" /\ Len(invoked[c]) = 1

\* control moves along Order only
C10_Steps ==
    \A c \in Callers :
        (impl = "adapter" /\ pc'[c] # pc[c]) => <<pc[c], pc'[c]>> \in Order

\* C10: the adapter's checks run in a fixed order - decoding, the $6$
\* prefix, the segment count, round parsing, the primitive - and a call
\* stops at its first failing check: an undecodable password with an
\* unsupported-scheme descriptor fails with the encoding error, and the
\* primitive is invoked only when every earlier check has passed.
C10_CheckOrder == []C10_Stages /\ [][C10_Steps]_vars

C10_Witness ==
    \E c \in Callers :
        /\ AdapterDone(c)
        /\ word[c] = Bytes(<<255>>)
        /\ salt[c] = D_5_ab
        /\ result[c] = EncodingError
        /\ invoked[c] = <<>>

====
